---- MODULE Spec2Model ----
(***************************************************************************)
(* One turn of get_answer (orc/code_orchestration.py): initialisation, the *)
(* RAG flow with its two retried completion calls and the capability       *)
(* invocation, the quality-control step with the retried groundedness      *)
(* call, and the assembly of answer_dict.                                  *)
(***************************************************************************)
EXTENDS Integers, Sequences, FiniteSets, TLC

\* ---------------------------------------------------------------- bounds
MaxHist == 1
MaxTextLen == 2

\* ------------------------------------------------------ program constants
ChatMaxAttempts == 12
SemanticMaxAttempts == 12
GroundednessThreshold == 3

\* ------------------------------------------------------------ collaborators
None == "<None>"
NoException == "<no exception>"

PROMPT_TEXT == "question answering prompt"
ERROR_ANSWER == "An error occurred."
UNGROUNDED_ANSWER == "No grounded answer."

get_message(key) ==
    IF key = "ERROR_ANSWER" THEN ERROR_ANSWER ELSE UNGROUNDED_ANSWER

functions_definitions == <<[name |-> "get_sources"]>>

\* function_dict: the names that resolve to a capability
function_dict == {"get_sources"}

\* Messages a caller's history may hold
HistoryMessages ==
    { [role |-> "user", content |-> "question"],
      [role |-> "assistant", content |-> "earlier reply"],
      [role |-> "function", name |-> "get_sources", content |-> "earlier sources"] }

RECURSIVE SeqsUpTo(_, _)
SeqsUpTo(S, n) ==
    IF n = 0 THEN {<<>>}
    ELSE LET shorter == SeqsUpTo(S, n - 1)
         IN  shorter \cup {Append(s, x) : s \in {t \in shorter : Len(t) = n - 1}, x \in S}

Histories == SeqsUpTo(HistoryMessages, MaxHist)

get_chat_history_as_messages(h) ==
    [i \in 1..Len(h) |->
        IF "name" \in DOMAIN h[i]
        THEN [role |-> h[i].role, name |-> h[i].name, content |-> h[i].content]
        ELSE [role |-> h[i].role, content |-> h[i].content]]

\* Failures one attempt of a network call can end with
AttemptErrors == {"connection error", "read timeout"}
CapabilityErrors == {"retrieval error"}
InitErrors == {"cannot open configuration"}

\* Texts of a function-call directive's arguments
ArgTexts == {"{\"question\": \"policy X\"}", "{\"query\": \"policy X\"}", "{\"question\": "}

JSONDecodeError == "Expecting value"

\* json.loads on the argument texts: the parsed object, or None when it raises
json_loads(text) ==
    IF text = "{\"question\": \"policy X\"}" THEN [question |-> "policy X"]
    ELSE IF text = "{\"query\": \"policy X\"}" THEN [query |-> "policy X"]
    ELSE None

json_loads_raises(text) ==
    text \notin {"{\"question\": \"policy X\"}", "{\"query\": \"policy X\"}"}

KeyError(key) == "'" \o key \o "'"

DirectContents == {"direct reply"}
FinalContents == {"final answer"}
SourceTexts == {"sources A", "sources B"}

Usages == { [prompt_tokens |-> 3, completion_tokens |-> 1],
            [prompt_tokens |-> 5, completion_tokens |-> 2] }

DirectMessages == {[role |-> "assistant", content |-> c] : c \in DirectContents}
FinalMessages == {[role |-> "assistant", content |-> c] : c \in FinalContents}
FunctionCallMessages ==
    { [role |-> "assistant", content |-> None,
       function_call |-> [name |-> n, arguments |-> a]] :
         n \in {"get_sources", "other_function"}, a \in ArgTexts }

WellFormed(M) ==
    { [choices |-> <<[message |-> m]>>, usage |-> u] : m \in M, u \in Usages }

\* A body the service answers with when it reports an error: no choices
ErrorBodies == { [error |-> [code |-> "429"]] }

FirstResponses == WellFormed(DirectMessages \cup FunctionCallMessages) \cup ErrorBodies
SecondResponses == WellFormed(FinalMessages) \cup ErrorBodies

\* ------------------------------------------------------ evaluator's text
Chars == {"2", "3", "-", " ", "x", "sup2"}
AsciiDigits == {"2", "3"}
\* characters str.isdigit accepts: decimal digits and digit-like characters
\* such as the superscript two
DigitChars == AsciiDigits \cup {"sup2"}

\* Texts the groundedness function may answer with: every text of at most one
\* character, and longer ones that are numbers, signed or padded numbers, or
\* not numbers at all
SampleTexts ==
    SeqsUpTo(Chars, 1) \cup
    { <<"2", "3">>, <<"3", "2">>, <<"-", "2">>, <<" ", "3">>, <<"3", " ">>,
      <<"3", "x">>, <<"3", "sup2">>,
      <<" ", "3", " ">>, <<"-", "2", "3">>, <<"2", "3", "2">>, <<"3", "-", "2">> }

EvaluatorTexts == {t \in SampleTexts : Len(t) <= MaxTextLen}

isdigit(s) == Len(s) > 0 /\ \A i \in 1..Len(s) : s[i] \in DigitChars

DigitValue(c) == IF c = "2" THEN 2 ELSE 3

\* int() on a text that passed isdigit: raises on a non-decimal digit
int_raises(s) == \E i \in 1..Len(s) : s[i] \notin AsciiDigits

RECURSIVE int(_)
int(s) ==
    IF Len(s) = 0 THEN 0
    ELSE 10 * int(SubSeq(s, 1, Len(s) - 1)) + DigitValue(s[Len(s)])

\* ------------------------------------------------------------------ state
VARIABLES
    pc,                     \* position in get_answer
    history,                \* the argument of get_answer
    prompt, answer, prompt_tokens, completion_tokens,
    answer_dict, rag_processing_error,
    messages, response_message,
    function_name, function_args, function_response,
    attempt,                \* attempt_number of the retried call in progress
    callLog,                \* the calls started so far, with their arguments
    respLog,                \* the responses chat_complete returned
    chatAttempts,           \* attempts made by all chat_complete calls
    semanticAttempts,       \* attempts made by call_semantic_function
    caught,                 \* text of the exception the RAG handler caught
    lastError,              \* what the latest failed attempt of the call in
                            \* progress raised
    semantic_response,      \* what call_semantic_function ended with
    raised,                 \* exception that left get_answer
    other                   \* the state of a second turn, run by another
                            \* caller, while it is not the one taking a step

locals == <<prompt, answer, prompt_tokens, completion_tokens, answer_dict,
            rag_processing_error, messages, response_message,
            function_name, function_args, function_response>>
ghosts == <<callLog, respLog, chatAttempts, semanticAttempts, caught,
            lastError, semantic_response, raised>>
vars == <<pc, history, locals, attempt, ghosts, other>>

EmptyDict == [k \in {} |-> ""]

Last(s) == s[Len(s)]

\* no second turn
Absent == [pc |-> "absent"]

\* the start of one call of get_answer
InitTurn ==
    /\ pc = "start"
    /\ history \in Histories
    /\ prompt = ""
    /\ answer = ""
    /\ prompt_tokens = 0
    /\ completion_tokens = 0
    /\ answer_dict = EmptyDict
    /\ rag_processing_error = FALSE
    /\ messages = <<>>
    /\ response_message = None
    /\ function_name = None
    /\ function_args = None
    /\ function_response = None
    /\ attempt = 0
    /\ callLog = <<>>
    /\ respLog = <<>>
    /\ chatAttempts = 0
    /\ semanticAttempts = 0
    /\ caught = NoException
    /\ lastError = NoException
    /\ semantic_response = <<>>
    /\ raised = NoException

Init == InitTurn /\ other = Absent

\* variant: every completion call is made with function_call="auto"
ChatCall_AlwaysAuto(msgs, mode) ==
    [fn |-> "chat_complete", messages |-> msgs,
     functions |-> functions_definitions, function_call |-> "auto"]

ChatCall(msgs, mode) ==
    [fn |-> "chat_complete", messages |-> msgs,
     functions |-> functions_definitions, function_call |-> mode]

\* variant: the system message is put after the history
InitialMessages_SystemLast(text, chat_history_messages) ==
    chat_history_messages \o <<[role |-> "system", content |-> text]>>

\* messages = [{"role": "system", "content": prompt}] + chat_history_messages
InitialMessages(text, chat_history_messages) ==
    <<[role |-> "system", content |-> text]>> \o chat_history_messages

\* ------------------------------------------------------ initialisation
Initialise ==
    /\ pc = "start"
    /\ prompt' = PROMPT_TEXT
    /\ messages' = InitialMessages(PROMPT_TEXT,
                                    get_chat_history_as_messages(history))
    /\ pc' = "first"
    /\ attempt' = 0
    /\ callLog' = Append(callLog, ChatCall(messages', "auto"))
    /\ UNCHANGED <<other, history, answer, prompt_tokens, completion_tokens, answer_dict,
                   rag_processing_error, response_message, function_name,
                   function_args, function_response, respLog, chatAttempts,
                   semanticAttempts, caught, lastError, semantic_response,
                   raised>>

\* Loading the kernel, the declarations, the plugin or the prompt file raises
InitialiseRaises ==
    /\ pc = "start"
    /\ \E e \in InitErrors : raised' = e
    /\ pc' = "raised"
    /\ UNCHANGED <<other, history, locals, attempt, callLog, respLog, chatAttempts,
                   semanticAttempts, caught, lastError, semantic_response>>

\* ------------------------------------------------------------- helpers
Put(d, k, v) == [x \in DOMAIN d \cup {k} |-> IF x = k THEN v ELSE d[x]]

\* variant: the ceiling is two attempts too high
stop_after_attempt_Late(attempt_number, max) == attempt_number >= max + 2

\* variant: the ceiling test is off by one and lets a further attempt through
stop_after_attempt_OffByOne(attempt_number, max) == attempt_number > max

\* tenacity's stop_after_attempt(max): stop once attempt_number reaches max
stop_after_attempt(attempt_number, max) == attempt_number >= max

ErrorAnswerText(e) == get_message("ERROR_ANSWER") \o " RAG flow: " \o e

\* except Exception as e (the handler around the RAG flow)
Except(e) ==
    /\ answer' = ErrorAnswerText(e)
    /\ rag_processing_error' = TRUE
    /\ caught' = e
    /\ pc' = "quality"

\* variant: the result is assembled in a fresh dictionary
Assemble_DropsMetadata(ans, dict) ==
    /\ answer' = ans
    /\ answer_dict' =
         [k \in {"prompt", "answer", "prompt_tokens", "completion_tokens"} |->
            IF k = "prompt" THEN prompt
            ELSE IF k = "answer" THEN ans
            ELSE IF k = "prompt_tokens" THEN prompt_tokens
            ELSE completion_tokens]
    /\ pc' = "done"

\* the tail of get_answer: the four keys every returned answer_dict gets
Assemble(ans, dict) ==
    /\ answer' = ans
    /\ answer_dict' =
         Put(Put(Put(Put(dict, "prompt", prompt), "answer", ans),
                 "prompt_tokens", prompt_tokens),
             "completion_tokens", completion_tokens)
    /\ pc' = "done"

\* variant: the quality-control handler lets the failure leave get_answer
QualityControlExcept_Reraises ==
    /\ raised' = "could not calculate groudedness"
    /\ pc' = "raised"
    /\ UNCHANGED <<answer, answer_dict>>

\* except Exception as e (the handler of the quality-control step): it logs,
\* and get_answer goes on to assemble the result with the answer it has
QualityControlExcept ==
    /\ Assemble(answer, answer_dict)
    /\ UNCHANGED raised

\* variant: a score equal to the threshold is rejected too
BelowThreshold_Inclusive(gpt_groudedness) == gpt_groudedness <= GroundednessThreshold

\* if gpt_groudedness < 3
BelowThreshold(gpt_groudedness) == gpt_groudedness < GroundednessThreshold

\* variant: the counter is assigned instead of incremented
Accumulate_Overwrite(tokens, used) == used

\* tokens += response['usage'][...]
Accumulate(tokens, used) == tokens + used

\* variant: the function result is placed before the assistant's call
FunctionRoundMessages_Swapped(assistant_message, name, result) ==
    << [role |-> "function", name |-> name, content |-> result],
       [role |-> assistant_message.role,
        function_call |-> [name |-> name,
                           arguments |-> assistant_message.function_call.arguments],
        content |-> None] >>

\* the two messages the function round adds to the conversation
FunctionRoundMessages(assistant_message, name, result) ==
    << [role |-> assistant_message.role,
        function_call |-> [name |-> name,
                           arguments |-> assistant_message.function_call.arguments],
        content |-> None],
       [role |-> "function", name |-> name, content |-> result] >>

\* variant: the gate forgets to look at rag_processing_error
QualityGate_IgnoresError(next_to_last, error) ==
    /\ next_to_last.role = "function"
    /\ next_to_last.name = "get_sources"

\* the condition under which the quality-control step calls the evaluator
QualityGate(next_to_last, error) ==
    /\ next_to_last.role = "function"
    /\ next_to_last.name = "get_sources"
    /\ ~error

\* ------------------------------------------------------- chat_complete
\* One attempt of chat_complete raises: tenacity waits and tries again, or,
\* when the attempt ceiling is reached, re-raises into the RAG handler.
ChatAttemptFails ==
    /\ pc \in {"first", "second"}
    /\ \E e \in AttemptErrors :
         /\ attempt' = attempt + 1
         /\ chatAttempts' = chatAttempts + 1
         /\ lastError' = e
         /\ IF stop_after_attempt(attempt', ChatMaxAttempts)
            THEN Except(lastError')
            ELSE UNCHANGED <<pc, answer, rag_processing_error, caught>>
    /\ UNCHANGED <<other, history, prompt, prompt_tokens, completion_tokens, answer_dict,
                   messages, response_message, function_name, function_args,
                   function_response, callLog, respLog, semanticAttempts,
                   semantic_response, raised>>

\* The first completion returns a body: lines 113-124 up to the capability call,
\* or the direct-answer branch to the end of the RAG flow.
FirstCompletionReturns ==
    /\ pc = "first"
    /\ \E response \in FirstResponses :
       LET msg == response.choices[1].message
           call == msg.function_call
       IN
         /\ attempt' = attempt + 1
         /\ chatAttempts' = chatAttempts + 1
         /\ respLog' = Append(respLog, response)
         /\ lastError' = NoException
         /\ IF "choices" \notin DOMAIN response
            THEN /\ Except(KeyError("choices"))
                 /\ UNCHANGED <<prompt_tokens, completion_tokens, messages,
                                response_message, function_name, function_args,
                                callLog>>
            ELSE /\ response_message' = msg
                 /\ prompt_tokens' =
                        Accumulate(prompt_tokens, response.usage.prompt_tokens)
                 /\ completion_tokens' =
                        Accumulate(completion_tokens,
                                   response.usage.completion_tokens)
                 /\ IF "function_call" \in DOMAIN msg
                    THEN /\ function_name' = call.name
                         /\ UNCHANGED messages
                         /\ IF json_loads_raises(call.arguments)
                            THEN /\ Except(JSONDecodeError)
                                 /\ UNCHANGED <<function_args, callLog>>
                            ELSE /\ function_args' = json_loads(call.arguments)
                                 /\ IF call.name \notin function_dict
                                    THEN /\ Except(KeyError(call.name))
                                         /\ UNCHANGED callLog
                                    ELSE /\ pc' = "invoke"
                                         /\ callLog' = Append(callLog,
                                               [fn |-> call.name,
                                                variables |-> function_args'])
                                         /\ UNCHANGED <<answer, rag_processing_error,
                                                        caught>>
                    ELSE /\ messages' = Append(messages,
                                [role |-> msg.role, content |-> msg.content])
                         /\ answer' = msg.content
                         /\ pc' = "quality"
                         /\ UNCHANGED <<function_name, function_args, callLog,
                                        rag_processing_error, caught>>
    /\ UNCHANGED <<other, history, prompt, answer_dict, function_response,
                   semanticAttempts, semantic_response, raised>>

\* function_to_call(context_variables.variables) returns: the two messages are
\* added and the second completion call starts with function_call="none".
CapabilityReturns ==
    /\ pc = "invoke"
    /\ \E text \in SourceTexts :
         /\ function_response' = text
         /\ messages' = messages \o
              FunctionRoundMessages(response_message, function_name, text)
    /\ pc' = "second"
    /\ attempt' = 0
    /\ callLog' = Append(callLog, ChatCall(messages', "none"))
    /\ UNCHANGED <<other, history, prompt, answer, prompt_tokens, completion_tokens,
                   answer_dict, rag_processing_error, response_message,
                   function_name, function_args, respLog, chatAttempts,
                   semanticAttempts, caught, lastError, semantic_response,
                   raised>>

CapabilityRaises ==
    /\ pc = "invoke"
    /\ \E e \in CapabilityErrors : Except(e)
    /\ UNCHANGED <<other, history, prompt, prompt_tokens, completion_tokens, answer_dict,
                   messages, response_message, function_name, function_args,
                   function_response, attempt, callLog, respLog, chatAttempts,
                   semanticAttempts, lastError, semantic_response, raised>>

\* The second completion returns a body: lines 145-173.
SecondCompletionReturns ==
    /\ pc = "second"
    /\ \E response \in SecondResponses :
       LET msg == response.choices[1].message
       IN
         /\ attempt' = attempt + 1
         /\ chatAttempts' = chatAttempts + 1
         /\ respLog' = Append(respLog, response)
         /\ lastError' = NoException
         /\ IF "choices" \notin DOMAIN response
            THEN /\ Except(KeyError("choices"))
                 /\ UNCHANGED <<prompt_tokens, completion_tokens, messages,
                                response_message, answer_dict>>
            ELSE /\ response_message' = msg
                 /\ prompt_tokens' =
                        Accumulate(prompt_tokens, response.usage.prompt_tokens)
                 /\ completion_tokens' =
                        Accumulate(completion_tokens,
                                   response.usage.completion_tokens)
                 /\ messages' = Append(messages,
                        [role |-> msg.role, content |-> msg.content])
                 /\ IF function_name = "get_sources"
                    THEN IF "question" \in DOMAIN function_args
                         THEN /\ answer_dict' =
                                   Put(Put(answer_dict, "search_query",
                                           function_args.question),
                                       "sources", function_response)
                              /\ answer' = Last(messages').content
                              /\ pc' = "quality"
                              /\ UNCHANGED <<rag_processing_error, caught>>
                         ELSE /\ Except(KeyError("question"))
                              /\ UNCHANGED answer_dict
                    ELSE /\ answer' = Last(messages').content
                         /\ pc' = "quality"
                         /\ UNCHANGED <<answer_dict, rag_processing_error, caught>>
    /\ UNCHANGED <<other, history, prompt, function_name, function_args,
                   function_response, callLog, semanticAttempts,
                   semantic_response, raised>>

\* ------------------------------------------------- quality control step
QualityControl ==
    /\ pc = "quality"
    /\ IF Len(messages) < 2
       THEN /\ raised' = "list index out of range"
            /\ pc' = "raised"
            /\ UNCHANGED <<answer, answer_dict, attempt, callLog>>
       ELSE LET next_to_last == messages[Len(messages) - 1]
            IN  IF QualityGate(next_to_last, rag_processing_error)
                THEN /\ pc' = "groundedness"
                     /\ attempt' = 0
                     /\ callLog' = Append(callLog,
                            [fn |-> "groudedness", answer |-> answer,
                             sources |-> next_to_last.content])
                     /\ UNCHANGED <<answer, answer_dict, raised>>
                ELSE /\ Assemble(answer, answer_dict)
                     /\ UNCHANGED <<attempt, callLog, raised>>
    /\ UNCHANGED <<other, history, prompt, prompt_tokens, completion_tokens,
                   rag_processing_error, messages, response_message,
                   function_name, function_args, function_response, respLog,
                   chatAttempts, semanticAttempts, caught, lastError,
                   semantic_response>>

\* One attempt of call_semantic_function raises: retried, or, at the ceiling,
\* re-raised into the quality-control handler, which only logs.
SemanticAttemptFails ==
    /\ pc = "groundedness"
    /\ \E e \in AttemptErrors :
         /\ attempt' = attempt + 1
         /\ semanticAttempts' = semanticAttempts + 1
         /\ lastError' = e
         /\ IF stop_after_attempt(attempt', SemanticMaxAttempts)
            THEN /\ semantic_response' = <<"raised", lastError'>>
                 /\ QualityControlExcept
            ELSE UNCHANGED <<pc, answer, answer_dict, semantic_response, raised>>
    /\ UNCHANGED <<other, history, prompt, prompt_tokens, completion_tokens,
                   rag_processing_error, messages, response_message,
                   function_name, function_args, function_response, callLog,
                   respLog, chatAttempts, caught>>

\* The groundedness function returns a text: lines 194-210.
SemanticFunctionReturns ==
    /\ pc = "groundedness"
    /\ \E text \in EvaluatorTexts :
         /\ semantic_response' = <<"result", text>>
         /\ IF isdigit(text)
            THEN IF int_raises(text)
                 THEN QualityControlExcept
                 ELSE LET gpt_groudedness == int(text)
                      IN  /\ Assemble(IF BelowThreshold(gpt_groudedness)
                                      THEN get_message("UNGROUNDED_ANSWER")
                                      ELSE answer,
                                      Put(answer_dict, "gpt_groudedness",
                                          gpt_groudedness))
                          /\ UNCHANGED raised
            ELSE /\ Assemble(answer, answer_dict)
                 /\ UNCHANGED raised
    /\ lastError' = NoException
    /\ attempt' = attempt + 1
    /\ semanticAttempts' = semanticAttempts + 1
    /\ UNCHANGED <<other, history, prompt, prompt_tokens, completion_tokens,
                   rag_processing_error, messages, response_message,
                   function_name, function_args, function_response, callLog,
                   respLog, chatAttempts, caught>>

Next ==
    \/ Initialise
    \/ InitialiseRaises
    \/ ChatAttemptFails
    \/ FirstCompletionReturns
    \/ CapabilityReturns
    \/ CapabilityRaises
    \/ SecondCompletionReturns
    \/ QualityControl
    \/ SemanticAttemptFails
    \/ SemanticFunctionReturns

Spec == Init /\ [][Next]_vars

\* ------------------------------------------------------ two callers
\* Everything one call of get_answer holds: its argument, its local variables
\* and its position
TurnState ==
    [pc |-> pc, history |-> history, prompt |-> prompt, answer |-> answer,
     prompt_tokens |-> prompt_tokens, completion_tokens |-> completion_tokens,
     answer_dict |-> answer_dict, rag_processing_error |-> rag_processing_error,
     messages |-> messages, response_message |-> response_message,
     function_name |-> function_name, function_args |-> function_args,
     function_response |-> function_response, attempt |-> attempt,
     callLog |-> callLog, respLog |-> respLog, chatAttempts |-> chatAttempts,
     semanticAttempts |-> semanticAttempts, caught |-> caught,
     lastError |-> lastError, semantic_response |-> semantic_response,
     raised |-> raised]

InitialTurn(h) ==
    [pc |-> "start", history |-> h, prompt |-> "", answer |-> "",
     prompt_tokens |-> 0, completion_tokens |-> 0,
     answer_dict |-> EmptyDict, rag_processing_error |-> FALSE,
     messages |-> <<>>, response_message |-> None,
     function_name |-> None, function_args |-> None,
     function_response |-> None, attempt |-> 0,
     callLog |-> <<>>, respLog |-> <<>>, chatAttempts |-> 0,
     semanticAttempts |-> 0, caught |-> NoException,
     lastError |-> NoException, semantic_response |-> <<>>,
     raised |-> NoException]

\* variant: the token counters are module-level, shared by the two calls
Switch_SharedCounters ==
    /\ other # Absent
    /\ other' = TurnState
    /\ pc' = other.pc
    /\ history' = other.history
    /\ prompt' = other.prompt
    /\ answer' = other.answer
    /\ UNCHANGED <<prompt_tokens, completion_tokens>>
    /\ answer_dict' = other.answer_dict
    /\ rag_processing_error' = other.rag_processing_error
    /\ messages' = other.messages
    /\ response_message' = other.response_message
    /\ function_name' = other.function_name
    /\ function_args' = other.function_args
    /\ function_response' = other.function_response
    /\ attempt' = other.attempt
    /\ callLog' = other.callLog
    /\ respLog' = other.respLog
    /\ chatAttempts' = other.chatAttempts
    /\ semanticAttempts' = other.semanticAttempts
    /\ caught' = other.caught
    /\ lastError' = other.lastError
    /\ semantic_response' = other.semantic_response
    /\ raised' = other.raised

\* The other caller's turn takes the next step: every variable of get_answer is
\* local to its call, so each turn goes on with its own values.
Switch ==
    /\ other # Absent
    /\ other' = TurnState
    /\ pc' = other.pc
    /\ history' = other.history
    /\ prompt' = other.prompt
    /\ answer' = other.answer
    /\ prompt_tokens' = other.prompt_tokens
    /\ completion_tokens' = other.completion_tokens
    /\ answer_dict' = other.answer_dict
    /\ rag_processing_error' = other.rag_processing_error
    /\ messages' = other.messages
    /\ response_message' = other.response_message
    /\ function_name' = other.function_name
    /\ function_args' = other.function_args
    /\ function_response' = other.function_response
    /\ attempt' = other.attempt
    /\ callLog' = other.callLog
    /\ respLog' = other.respLog
    /\ chatAttempts' = other.chatAttempts
    /\ semanticAttempts' = other.semanticAttempts
    /\ caught' = other.caught
    /\ lastError' = other.lastError
    /\ semantic_response' = other.semantic_response
    /\ raised' = other.raised

\* one caller with any history, the other with a first question
PairInit ==
    /\ InitTurn
    /\ other = InitialTurn(<<[role |-> "user", content |-> "question"]>>)

\* Two turns whose calls return at the first attempt, in any interleaving
PairNext ==
    \/ Initialise
    \/ InitialiseRaises
    \/ FirstCompletionReturns
    \/ CapabilityReturns
    \/ CapabilityRaises
    \/ SecondCompletionReturns
    \/ QualityControl
    \/ SemanticFunctionReturns
    \/ Switch

PairSpec == PairInit /\ [][PairNext]_vars

\* every attempt of a call returns or raises, and get_answer then goes on
FairSpec == Spec /\ WF_vars(Next)

\* ================================================================ claims
Called(f) == \E i \in 1..Len(callLog) : callLog[i].fn = f

HasChoices(response) == "choices" \in DOMAIN response

HasDirective(response) ==
    /\ HasChoices(response)
    /\ "function_call" \in DOMAIN response.choices[1].message

Accounted == {i \in 1..Len(respLog) : HasChoices(respLog[i])}

RECURSIVE SumUsage(_, _)
SumUsage(log, field) ==
    IF Len(log) = 0 THEN 0
    ELSE (IF HasChoices(Last(log)) THEN Last(log).usage[field] ELSE 0)
         + SumUsage(SubSeq(log, 1, Len(log) - 1), field)

IsDecimalText(s) ==
    /\ Len(s) > 0
    /\ \A i \in 1..Len(s) : s[i] \in {"0", "1", "2", "3", "4", "5", "6", "7", "8", "9"}

\* C1: whatever the history and whichever step fails, get_answer returns an
\* answer dictionary and no exception ever leaves it.
C1_NoExceptionEscapes == pc # "raised" /\ raised = NoException

C3_DirectAnswer ==
    (Len(respLog) >= 1 /\ HasChoices(respLog[1]) /\ ~HasDirective(respLog[1])) =>
        /\ ~Called("groudedness")
        /\ pc = "done" =>
             /\ answer_dict["answer"] = respLog[1].choices[1].message.content
             /\ DOMAIN answer_dict \cap {"sources", "search_query", "gpt_groudedness"} = {}

\* C4: the messages passed to the second completion call end with the
\* assistant's function-call message (content null) immediately followed by the
\* function-result message that has the called function's name and the
\* capability's text; no other function-call message precedes them.
C4_ResultFollowsCall ==
    \A i \in 1..Len(callLog) :
        (callLog[i].fn = "chat_complete" /\ callLog[i].function_call = "none") =>
            LET m == callLog[i].messages
                n == Len(m)
                directive == respLog[1].choices[1].message.function_call
            IN  /\ n >= 2
                /\ m[n - 1].role = "assistant"
                /\ m[n - 1].content = None
                /\ "function_call" \in DOMAIN m[n - 1]
                /\ m[n - 1].function_call = directive
                /\ directive.name \in function_dict
                /\ m[n].role = "function"
                /\ m[n].name = directive.name
                /\ m[n].content = function_response
                /\ \A j \in 1..(n - 2) : "function_call" \notin DOMAIN m[j]

C4_Witness ==
    /\ pc = "second"
    /\ Len(callLog) = 3
    /\ callLog[3].function_call = "none"
    /\ function_response = "sources B"

\* what C5 says of a returned dictionary, as stated: the counters are the sums
\* over the responses, one response summed without a directive, two with one
C5_ResultSumsAsStated ==
    pc = "done" =>
        /\ answer_dict["prompt_tokens"] = SumUsage(respLog, "prompt_tokens")
        /\ answer_dict["completion_tokens"] = SumUsage(respLog, "completion_tokens")
        /\ Len(respLog) >= 1 =>
             Cardinality(Accounted) = IF HasDirective(respLog[1]) THEN 2 ELSE 1

\* C5 (as stated): the returned counters are the sums of the usage of the
\* completion calls, exactly one call without a directive and exactly two with
\* one, and the counters never decrease.
C5_OneOrTwoCalls ==
    /\ []C5_ResultSumsAsStated
    /\ [][prompt_tokens' >= prompt_tokens
          /\ completion_tokens' >= completion_tokens]_vars

C5_ResultSums ==
    pc = "done" =>
        /\ answer_dict["prompt_tokens"] = SumUsage(respLog, "prompt_tokens")
        /\ answer_dict["completion_tokens"] = SumUsage(respLog, "completion_tokens")
        /\ Cardinality(Accounted) =
             IF Len(respLog) = 0 \/ ~HasChoices(respLog[1]) THEN 0
             ELSE IF ~HasDirective(respLog[1]) THEN 1
             ELSE IF Len(respLog) = 2 /\ HasChoices(respLog[2]) THEN 2
             ELSE 1

\* C5 (amended): the returned counters are the sums of the usage of the
\* completion calls that returned a body with choices and usage; that is one
\* call when the first response has no directive, two when it has one and the
\* second call returned such a body, one when the turn failed in between, none
\* when the first call gave no such body; the counters never decrease.
C5_TokenAccounting ==
    /\ []C5_ResultSums
    /\ [][prompt_tokens' >= prompt_tokens
          /\ completion_tokens' >= completion_tokens]_vars

C5_Witness ==
    /\ pc = "done"
    /\ Cardinality(Accounted) = 2
    /\ answer_dict["prompt_tokens"] = 8
    /\ answer_dict["completion_tokens"] = 3

\* C6: a returned dictionary with a groundedness score below 3 has the fixed
\* ungrounded answer; with a score of 3 or more it has the RAG round's answer,
\* the content of the last conversation message.
C6_Threshold ==
    (pc = "done" /\ "gpt_groudedness" \in DOMAIN answer_dict) =>
        /\ answer_dict["gpt_groudedness"] < 3 =>
             answer_dict["answer"] = UNGROUNDED_ANSWER
        /\ answer_dict["gpt_groudedness"] >= 3 =>
             answer_dict["answer"] = Last(messages).content

C6_Witness ==
    /\ pc = "done"
    /\ "gpt_groudedness" \in DOMAIN answer_dict
    /\ answer_dict["gpt_groudedness"] = 2
    /\ answer_dict["answer"] = UNGROUNDED_ANSWER
    /\ Called("get_sources")

\* C7: when the groundedness call fails after its attempts or returns a text
\* that is not a decimal number, get_answer returns the RAG round's answer
\* unchanged, with no score and no error, and no exception leaves it.
C7_SoftFailure ==
    (/\ pc \in {"done", "raised"}
     /\ Len(semantic_response) > 0
     /\ \/ semantic_response[1] = "raised"
        \/ ~IsDecimalText(semantic_response[2])) =>
        /\ pc = "done"
        /\ raised = NoException
        /\ answer_dict["answer"] = Last(messages).content
        /\ "gpt_groudedness" \notin DOMAIN answer_dict
        /\ "error" \notin DOMAIN answer_dict
        /\ ~rag_processing_error

C7_Witness ==
    /\ pc = "done"
    /\ Len(semantic_response) > 0
    /\ semantic_response[1] = "raised"
    /\ semanticAttempts = SemanticMaxAttempts
    /\ Called("get_sources")

\* C8: a returned dictionary has the sources key if and only if the retrieval
\* capability was invoked during the turn.
C8_SourcesIffRetrieved ==
    pc = "done" => ("sources" \in DOMAIN answer_dict <=> Called("get_sources"))

\* C9: the evaluator is called only if the retrieval capability was invoked in
\* this turn and the RAG round ended without an exception.
C9_EvaluatorOnlyAfterRetrieval ==
    Called("groudedness") => (Called("get_sources") /\ ~rag_processing_error)

\* C10: a chat_complete call makes at most 12 attempts; a failed attempt that is
\* not the 12th leaves the call waiting to try again, the 12th failure is raised
\* to get_answer's handler, and a successful attempt ends the call.
C10_ChatRetry ==
    [][(pc \in {"first", "second"} /\ chatAttempts' # chatAttempts) =>
          /\ attempt' = attempt + 1
          /\ attempt' <= 12
          /\ respLog' = respLog =>
               IF attempt' < 12
               THEN pc' = pc /\ caught' = caught /\ ~rag_processing_error'
               ELSE /\ pc' = "quality"
                    /\ rag_processing_error'
                    /\ caught' = lastError' /\ lastError' \in AttemptErrors
                    /\ answer' = ERROR_ANSWER \o " RAG flow: " \o lastError'
          /\ respLog' # respLog => pc' # pc /\ Len(respLog') = Len(respLog) + 1
      ]_vars

C10_Witness ==
    /\ pc = "quality"
    /\ attempt = ChatMaxAttempts
    /\ chatAttempts = ChatMaxAttempts
    /\ caught \in AttemptErrors

\* ---------------------------------------------- integers written as text
DecimalDigits == <<"0", "1", "2", "3", "4", "5", "6", "7", "8", "9">>

DecimalDigit(c) == (CHOOSE d \in 1..10 : DecimalDigits[d] = c) - 1

RECURSIVE NumeralValue(_)
NumeralValue(s) ==
    IF Len(s) = 0 THEN 0
    ELSE 10 * NumeralValue(SubSeq(s, 1, Len(s) - 1)) + DecimalDigit(s[Len(s)])

RECURSIVE Strip(_)
Strip(s) ==
    IF Len(s) = 0 THEN s
    ELSE IF s[1] = " " THEN Strip(Tail(s))
    ELSE IF s[Len(s)] = " " THEN Strip(SubSeq(s, 1, Len(s) - 1))
    ELSE s

\* the text is an integer: decimal digits, possibly signed, possibly padded
ParsesAsInteger(s) ==
    LET t == Strip(s)
    IN  /\ Len(t) > 0
        /\ IF t[1] = "-" THEN IsDecimalText(Tail(t)) ELSE IsDecimalText(t)

IntegerValue(s) ==
    LET t == Strip(s)
    IN  IF t[1] = "-" THEN 0 - NumeralValue(Tail(t)) ELSE NumeralValue(t)

EvaluatorCalls == {i \in 1..Len(callLog) : callLog[i].fn = "groudedness"}

\* C11: when the model calls get_sources, retrieval and the second completion
\* succeed and the evaluator returns an integer, the result's search_query is
\* the directive's question argument, its sources is the retrieved text (the
\* text given to the evaluator and put in the function-result message), its
\* score is that integer, and with a score of 3 or more its answer is the
\* second completion's content.
C11_RetrievalResult ==
    (/\ pc = "done"
     /\ Called("get_sources")
     /\ Len(respLog) = 2 /\ HasChoices(respLog[2])
     /\ Len(semantic_response) > 0
     /\ semantic_response[1] = "result"
     /\ ParsesAsInteger(semantic_response[2])) =>
        LET directive == respLog[1].choices[1].message.function_call
            score == IntegerValue(semantic_response[2])
        IN  /\ "search_query" \in DOMAIN answer_dict
            /\ answer_dict["search_query"] = json_loads(directive.arguments).question
            /\ "sources" \in DOMAIN answer_dict
            /\ answer_dict["sources"] = function_response
            /\ \A i \in EvaluatorCalls : callLog[i].sources = function_response
            /\ messages[Len(messages) - 1].content = function_response
            /\ "gpt_groudedness" \in DOMAIN answer_dict
            /\ answer_dict["gpt_groudedness"] = score
            /\ score >= 3 =>
                 answer_dict["answer"] = respLog[2].choices[1].message.content

\* C13: a transient service error on a completion call, be it a network
\* failure or an error the service reports in its answer, is retried; the turn
\* takes the error path for it only when the attempt ceiling is reached.
C13_TransientErrorsRetried ==
    [][(/\ pc \in {"first", "second"}
        /\ chatAttempts' # chatAttempts
        /\ \/ respLog' = respLog
           \/ Last(respLog') \in ErrorBodies) =>
          IF attempt' < ChatMaxAttempts
          THEN pc' = pc /\ ~rag_processing_error'
          ELSE pc' = "quality" /\ rag_processing_error'
      ]_vars

UnusableDirective(response) ==
    /\ HasDirective(response)
    /\ LET directive == response.choices[1].message.function_call
       IN  \/ directive.name \notin function_dict
           \/ json_loads_raises(directive.arguments)

\* C14: when the directive names a function that is not in the dispatch table,
\* or its arguments cannot be parsed, the turn ends in the error outcome: no
\* capability is invoked, no second completion call is made, no message is
\* appended, and the result has no retrieval or groundedness fields.
C14_UnusableDirectiveIsError ==
    (Len(respLog) >= 1 /\ UnusableDirective(respLog[1])) =>
        /\ pc \in {"quality", "done"}
        /\ rag_processing_error
        /\ Len(callLog) = 1
        /\ messages = callLog[1].messages
        /\ pc = "done" =>
             /\ answer_dict["answer"] = ERROR_ANSWER \o " RAG flow: " \o caught
             /\ DOMAIN answer_dict \cap {"sources", "search_query", "gpt_groudedness"} = {}

\* the calls started so far: a completion call by its function_call mode, a
\* capability or the evaluator by its name
CallNames ==
    [i \in 1..Len(callLog) |->
        IF callLog[i].fn = "chat_complete" THEN callLog[i].function_call
        ELSE callLog[i].fn]

IsPrefix(s, t) == Len(s) <= Len(t) /\ SubSeq(t, 1, Len(s)) = s

\* C15: the calls of a turn are made one after another in this order: the first
\* completion call with mode auto; only after a directive, one capability
\* invocation and then one completion call with mode none; then at most one
\* evaluator call. No third completion call, no second capability invocation,
\* and the call in progress is always the one started last.
C15_CallOrder ==
    /\ \/ IsPrefix(CallNames, <<"auto", "get_sources", "none", "groudedness">>)
       \/ IsPrefix(CallNames, <<"auto", "groudedness">>)
    /\ Called("get_sources") => (Len(respLog) >= 1 /\ HasDirective(respLog[1]))
    /\ pc = "start" => CallNames = <<>>
    /\ pc = "first" => CallNames = <<"auto">>
    /\ pc = "invoke" => CallNames = <<"auto", "get_sources">>
    /\ pc = "second" => CallNames = <<"auto", "get_sources", "none">>
    /\ pc = "groundedness" =>
         (Len(CallNames) >= 2 /\ Last(CallNames) = "groudedness")

C15_Witness ==
    /\ pc = "done"
    /\ CallNames = <<"auto", "get_sources", "none", "groudedness">>

\* C16: the quality-control step changes only the answer and the groundedness
\* score: whatever the evaluator does, the returned sources, search_query,
\* prompt, prompt_tokens and completion_tokens are those of the RAG round, no
\* error is set, and an answer is returned.
C16_GateFrame ==
    [][pc = "groundedness" =>
          /\ pc' \in {"groundedness", "done"}
          /\ rag_processing_error' = rag_processing_error
          /\ <<prompt, prompt_tokens, completion_tokens, messages>>'
               = <<prompt, prompt_tokens, completion_tokens, messages>>
          /\ pc' = "done" =>
               /\ DOMAIN answer_dict' \ {"gpt_groudedness"} =
                    DOMAIN answer_dict \cup
                      {"prompt", "answer", "prompt_tokens", "completion_tokens"}
               /\ \A k \in DOMAIN answer_dict : answer_dict'[k] = answer_dict[k]
               /\ answer_dict'["prompt"] = prompt
               /\ answer_dict'["prompt_tokens"] = prompt_tokens
               /\ answer_dict'["completion_tokens"] = completion_tokens
               /\ answer_dict'["answer"] \in {answer, UNGROUNDED_ANSWER}
               /\ ~rag_processing_error'
      ]_vars

C16_Witness ==
    /\ pc = "done"
    /\ Len(semantic_response) > 0
    /\ DOMAIN answer_dict = {"prompt", "answer", "prompt_tokens", "completion_tokens",
                             "search_query", "sources", "gpt_groudedness"}
    /\ answer_dict["gpt_groudedness"] = 2
    /\ answer_dict["sources"] = "sources A"
    /\ answer_dict["search_query"] = "policy X"

\* C17: when the quality gate is entered after a retrieval and the evaluator
\* returns a text, the score is recorded exactly when the text parses as an
\* integer (signed or padded texts included) and is then that integer;
\* otherwise the score is unset and the answer unchanged.
C17_ScoreIffInteger ==
    (/\ pc = "done"
     /\ Called("get_sources")
     /\ Len(semantic_response) > 0
     /\ semantic_response[1] = "result") =>
        LET text == semantic_response[2]
        IN  /\ "gpt_groudedness" \in DOMAIN answer_dict <=> ParsesAsInteger(text)
            /\ ParsesAsInteger(text) =>
                 answer_dict["gpt_groudedness"] = IntegerValue(text)
            /\ ~ParsesAsInteger(text) =>
                 answer_dict["answer"] = Last(messages).content

CapabilityCalls == {i \in 1..Len(callLog) : callLog[i].fn \in function_dict}

\* C18: every turn ends, returning or raising, after at most 24 completion
\* attempts, one capability invocation and 12 evaluator attempts.
C18_Terminates ==
    /\ <>(pc \in {"done", "raised"})
    /\ [](/\ chatAttempts <= 24
          /\ semanticAttempts <= 12
          /\ Cardinality(CapabilityCalls) <= 1)

C18_Witness ==
    /\ pc = "done"
    /\ chatAttempts = 24
    /\ semanticAttempts = 12
    /\ Cardinality(CapabilityCalls) = 1

CompletionCalls == {i \in 1..Len(callLog) : callLog[i].fn = "chat_complete"}

C19_Conversation ==
    Len(callLog) >= 1 =>
        LET sent == callLog[1].messages
        IN  /\ sent = <<[role |-> "system", content |-> PROMPT_TEXT]>>
                         \o get_chat_history_as_messages(history)
            /\ IsPrefix(sent, messages)
            /\ messages[1] = [role |-> "system", content |-> prompt]
            /\ \A i \in CompletionCalls :
                 /\ IsPrefix(sent, callLog[i].messages)
                 /\ IsPrefix(callLog[i].messages, messages)
                 /\ callLog[i].functions = callLog[1].functions

\* C19: the conversation only grows within a turn: the system prompt followed
\* by the history, as sent to the first completion call, is a prefix of the
\* messages sent to the second call and of the final conversation, the system
\* prompt stays first, and both calls get the same function declarations.
C19_AppendOnly ==
    /\ []C19_Conversation
    /\ [][IsPrefix(messages, messages')]_vars

C19_Witness ==
    /\ pc = "done"
    /\ Len(history) = 1
    /\ Len(messages) = 5
    /\ Cardinality(CompletionCalls) = 2

\* ------------------------------------------- the result of a turn run alone
ResultOf(dict, ans, pt, ct) ==
    [k \in DOMAIN dict \cup {"prompt", "answer", "prompt_tokens", "completion_tokens"} |->
        IF k = "prompt" THEN PROMPT_TEXT
        ELSE IF k = "answer" THEN ans
        ELSE IF k = "prompt_tokens" THEN pt
        ELSE IF k = "completion_tokens" THEN ct
        ELSE dict[k]]

ErrorResult(e, pt, ct) ==
    ResultOf(EmptyDict, ERROR_ANSWER \o " RAG flow: " \o e, pt, ct)

GradedResult(dict, ans, pt, ct, evaluation) ==
    IF Len(evaluation) = 2 /\ evaluation[1] = "result" /\ IsDecimalText(evaluation[2])
    THEN LET score == NumeralValue(evaluation[2])
         IN  ResultOf([k \in DOMAIN dict \cup {"gpt_groudedness"} |->
                          IF k = "gpt_groudedness" THEN score ELSE dict[k]],
                      IF score < 3 THEN UNGROUNDED_ANSWER ELSE ans, pt, ct)
    ELSE ResultOf(dict, ans, pt, ct)

\* What a turn returns as a function of what it was given: its history, the
\* bodies its completion calls returned, the failure a collaborator ended with
\* (t.caught, read only where a collaborator failed), the retrieved text and
\* the evaluator's answer.
ExpectedResult(t) ==
    LET log == t.respLog
        hist == get_chat_history_as_messages(t.history)
    IN
    IF Len(log) = 0 THEN ErrorResult(t.caught, 0, 0)
    ELSE IF ~HasChoices(log[1]) THEN ErrorResult("'choices'", 0, 0)
    ELSE
      LET first == log[1].choices[1].message
          p1 == log[1].usage.prompt_tokens
          c1 == log[1].usage.completion_tokens
      IN
      IF ~HasDirective(log[1])
      THEN IF /\ Len(hist) >= 1
              /\ Last(hist).role = "function"
              /\ Last(hist).name = "get_sources"
           THEN GradedResult(EmptyDict, first.content, p1, c1, t.semantic_response)
           ELSE ResultOf(EmptyDict, first.content, p1, c1)
      ELSE
        LET directive == first.function_call
        IN
        IF json_loads_raises(directive.arguments)
        THEN ErrorResult(JSONDecodeError, p1, c1)
        ELSE IF directive.name \notin function_dict
        THEN ErrorResult("'" \o directive.name \o "'", p1, c1)
        ELSE IF t.function_response = None \/ Len(log) = 1
        THEN ErrorResult(t.caught, p1, c1)
        ELSE IF ~HasChoices(log[2]) THEN ErrorResult("'choices'", p1, c1)
        ELSE
          LET p2 == log[2].usage.prompt_tokens
              c2 == log[2].usage.completion_tokens
              arguments == json_loads(directive.arguments)
          IN
          IF "question" \notin DOMAIN arguments
          THEN ErrorResult("'question'", p1 + p2, c1 + c2)
          ELSE GradedResult([search_query |-> arguments.question,
                             sources |-> t.function_response],
                            log[2].choices[1].message.content,
                            p1 + p2, c1 + c2, t.semantic_response)

\* a turn run alone returns ExpectedResult
SoloResult == pc = "done" => answer_dict = ExpectedResult(TurnState)

\* C12: two turns run by different callers are independent: in every
\* interleaving of their steps, each returns what it returns when run alone
\* with the same history and the same answers of its collaborators.
C12_TurnsIndependent ==
    /\ pc = "done" => answer_dict = ExpectedResult(TurnState)
    /\ other.pc = "done" => other.answer_dict = ExpectedResult(other)

\* one turn has returned its result while the other, started before it ended,
\* is still waiting for its second completion
C12_Witness ==
    /\ pc = "done"
    /\ "sources" \in DOMAIN answer_dict
    /\ answer_dict["sources"] = "sources A"
    /\ answer_dict["prompt_tokens"] = 10
    /\ other.pc = "second"
    /\ other.function_response = "sources B"
    /\ other.prompt_tokens = 3

====
